---- MODULE Spec2Model ----
(***************************************************************************)
(* Model of src/Utilities/duplicate_finder.py: the two-pass size-then-hash *)
(* duplicate detection (find_duplicates) and the retention / deletion loop *)
(* (delete_duplicates), run against a filesystem that an external party    *)
(* may change between the program's passes.                                *)
(*                                                                         *)
(* The scanned folder is one directory holding the files 1..NumFiles; the  *)
(* number of a file is its position in the directory listing, so numeric   *)
(* order is discovery order.                                               *)
(***************************************************************************)
EXTENDS Integers, Sequences, FiniteSets, TLC

NumFiles == 4
MaxSize == 2
MaxByte == 1
MaxTime == 2
MaxMutations == 1

BlockSize == 65536

VARIABLES
    fs,            \* filesystem: file -> [content, mtime, status]
    root_ok,       \* whether the scanned folder can be listed
    mutations,     \* number of external changes made to the filesystem
    tree_changed,  \* an external change removed or rewrote a file
    altered,       \* files rewritten between the size scan and the hashing
    pc,            \* position of the program
    crash_at,      \* the call whose exception escaped, "none" otherwise
    recursive,     \* find_duplicates: parameter
    listing,       \* find_duplicates: directory entries being iterated
    size_groups,   \* find_duplicates: size -> files, in insertion order
    scan_failed,   \* files on which os.path.getsize raised during the scan
    hashed,        \* files passed to get_file_hash, in order
    hash_groups,   \* find_duplicates: digest -> files, in insertion order
    warnings,      \* "Error reading <path>: <e>" lines printed
    duplicates,    \* the dictionary find_duplicates returns
    keep_newest,   \* delete_duplicates: parameter
    di,            \* delete_duplicates: index of the set being processed
    ci,            \* delete_duplicates: index into delete_files
    keep_file,     \* delete_duplicates: local of the current set
    delete_files,  \* delete_duplicates: local of the current set
    kept,          \* "Keeping: <path>" lines printed, in order
    attempts,      \* outcome of each os.remove call, in order
    deleted_count, \* delete_duplicates: local
    freed_space,   \* delete_duplicates: local
    scan_sizes,    \* size get_file_size returned for each file in the scan
    report,        \* display_duplicates: the lines printed per set
    total_wasted_space, \* display_duplicates: local, returned
    duplicate_count,    \* display_duplicates: local
    args_delete,   \* main: args.delete
    response,      \* main: answer read by input()
    prompts,       \* number of input() calls made
    runs,          \* number of find_duplicates calls started
    first_result   \* what the first find_duplicates call returned

vars == <<fs, root_ok, mutations, tree_changed, altered, pc, crash_at,
          recursive, listing, size_groups, scan_failed, hashed, hash_groups,
          warnings, duplicates, keep_newest, di, ci, keep_file, delete_files,
          kept, attempts, deleted_count, freed_space, scan_sizes, report,
          total_wasted_space, duplicate_count, args_delete, response, prompts,
          runs, first_result>>

mainVars == <<report, total_wasted_space, duplicate_count, args_delete,
              response, prompts, runs, first_result>>

findVars == <<recursive, listing, size_groups, scan_failed, hashed,
              hash_groups, warnings, duplicates>>
deleteVars == <<keep_newest, di, ci, keep_file, delete_files, kept, attempts,
                deleted_count, freed_space>>

Paths == 1..NumFiles
Bytes == 0..MaxByte
Times == 1..MaxTime

RECURSIVE Rep(_, _)
Rep(b, n) == IF n = 0 THEN <<>> ELSE Append(Rep(b, n - 1), b)

\* File contents of the model: n copies of one byte, 0 <= n <= MaxSize.
Contents == {Rep(b, n) : b \in Bytes, n \in 0..MaxSize}

None == 0

InGroup(groups, k, f) == \E j \in DOMAIN groups[k].files : groups[k].files[j] = f

Grouped(groups, f) == \E k \in DOMAIN groups : InGroup(groups, k, f)

RECURSIVE SeqToSet(_)
SeqToSet(s) == IF s = <<>> THEN {} ELSE {Head(s)} \cup SeqToSet(Tail(s))

(***************************************************************************)
(* Filesystem calls.                                                       *)
(***************************************************************************)
\* os.stat on a path: fails when the file is gone.
StatError(fsys, f) ==
    IF fsys[f].status = "missing" THEN "FileNotFoundError" ELSE "none"

\* open(filepath, 'rb')
OpenError(fsys, f) ==
    IF fsys[f].status = "missing" THEN "FileNotFoundError"
    ELSE IF fsys[f].status = "unreadable" THEN "PermissionError"
    ELSE "none"

\* os.remove(filepath)
RemoveError(fsys, f) ==
    IF fsys[f].status = "missing" THEN "FileNotFoundError"
    ELSE IF fsys[f].status = "protected" THEN "PermissionError"
    ELSE "none"

Unlink_Nop(fsys, f) == fsys

Unlink(fsys, f) == [fsys EXCEPT ![f].status = "missing"]

isfile(fsys, f) == fsys[f].status /= "missing"

getmtime(fsys, f) == fsys[f].mtime

\* get_file_size: os.path.getsize, 0 on OSError
get_file_size(fsys, f) ==
    IF StatError(fsys, f) /= "none" THEN 0 ELSE Len(fsys[f].content)

(***************************************************************************)
(* get_file_hash                                                           *)
(***************************************************************************)
HasherUpdate_Nop(h, data) == h

\* hasher.update(data): folds the bytes into the running digest.  The fold
\* is injective on byte strings, as the program takes MD5 to be.
RECURSIVE HasherUpdate(_, _)
HasherUpdate(h, data) ==
    IF data = <<>> THEN h
    ELSE HasherUpdate(h * (MaxByte + 2) + Head(data) + 1, Tail(data))

\* while True: data = f.read(block_size); if not data: break; update(data)
RECURSIVE ReadLoop(_, _)
ReadLoop(h, rest) ==
    IF rest = <<>> THEN h
    ELSE LET n == IF Len(rest) < BlockSize THEN Len(rest) ELSE BlockSize
         IN ReadLoop(HasherUpdate(h, SubSeq(rest, 1, n)),
                     SubSeq(rest, n + 1, Len(rest)))

hexdigest(content) == ReadLoop(1, content)

HashExcept_PermissionOnly(err) == err = "PermissionError"

\* except (IOError, PermissionError): IOError is OSError
HashExcept(err) == err \in {"FileNotFoundError", "PermissionError"}

get_file_hash(fsys, f) ==
    IF OpenError(fsys, f) /= "none" THEN None ELSE hexdigest(fsys[f].content)

(***************************************************************************)
(* find_duplicates                                                         *)
(***************************************************************************)
\* appends to the newest group only, as grouping adjacent entries would
AddToGroup_Adjacent(groups, key, f) ==
    IF groups /= <<>> /\ groups[Len(groups)].key = key
    THEN [groups EXCEPT ![Len(groups)].files = Append(@, f)]
    ELSE Append(groups, [key |-> key, files |-> <<f>>])

\* groups[key].append(f) on a defaultdict(list); dicts keep insertion order
AddToGroup(groups, key, f) ==
    IF \E i \in DOMAIN groups : groups[i].key = key
    THEN [i \in DOMAIN groups |->
            IF groups[i].key = key
            THEN [groups[i] EXCEPT !.files = Append(@, f)]
            ELSE groups[i]]
    ELSE Append(groups, [key |-> key, files |-> <<f>>])

NonEmpty_OrZero(file_size) == file_size >= 0

\* if file_size > 0:  # Skip empty files
NonEmpty(file_size) == file_size > 0

\* first pass: for filename in files / for item in os.listdir(folder_path)
RECURSIVE ScanLoop(_, _, _, _)
ScanLoop(fsys, rec, items, groups) ==
    IF items = <<>> THEN groups
    ELSE LET filepath == Head(items)
             file_size == get_file_size(fsys, filepath)
             take == (rec \/ isfile(fsys, filepath)) /\ NonEmpty(file_size)
         IN ScanLoop(fsys, rec, Tail(items),
                     IF take THEN AddToGroup(groups, file_size, filepath)
                     ELSE groups)

\* as HashQueue, buckets of a single file included
RECURSIVE HashQueue_All(_)
HashQueue_All(groups) ==
    IF groups = <<>> THEN <<>>
    ELSE Head(groups).files \o HashQueue_All(Tail(groups))

\* as HashQueue, every bucket taken from its last file to its first
RECURSIVE HashQueue_Reversed(_)
HashQueue_Reversed(groups) ==
    IF groups = <<>> THEN <<>>
    ELSE (IF Len(Head(groups).files) > 1
          THEN [i \in 1..Len(Head(groups).files) |->
                  Head(groups).files[Len(Head(groups).files) + 1 - i]]
          ELSE <<>>)
         \o HashQueue_Reversed(Tail(groups))

\* the files the second pass visits: buckets with len(files) > 1, in order
RECURSIVE HashQueue(_)
HashQueue(groups) ==
    IF groups = <<>> THEN <<>>
    ELSE (IF Len(Head(groups).files) > 1 THEN Head(groups).files ELSE <<>>)
         \o HashQueue(Tail(groups))

potential_dupes(groups) ==
    Cardinality({i \in DOMAIN groups : Len(groups[i].files) > 1})

\* second pass: file_hash = get_file_hash(filepath); if file_hash: append
RECURSIVE HashLoop(_, _, _)
HashLoop(fsys, queue, groups) ==
    IF queue = <<>> THEN groups
    ELSE LET filepath == Head(queue)
             file_hash == get_file_hash(fsys, filepath)
         IN HashLoop(fsys, Tail(queue),
                     IF file_hash /= None
                     THEN AddToGroup(groups, file_hash, filepath)
                     ELSE groups)

FilterDuplicates_Strict(groups) ==
    SelectSeq(groups, LAMBDA g : Len(g.files) > 2)

\* {h: files for h, files in hash_groups.items() if len(files) > 1}
FilterDuplicates(groups) == SelectSeq(groups, LAMBDA g : Len(g.files) > 1)

\* the print in get_file_hash's except clause, for every file of the queue
HashWarnings(fsys, queue) ==
    {<<f, OpenError(fsys, f)>> : f \in {g \in SeqToSet(queue) : OpenError(fsys, g) /= "none"}}

RECURSIVE ListDir(_)
ListDir(n) == IF n = 0 THEN <<>> ELSE Append(ListDir(n - 1), n)

\* find_duplicates is called; os.walk / os.listdir lists the folder.
FindBegin(rec) ==
    /\ pc = "start"
    /\ recursive' = rec
    /\ IF root_ok
       THEN /\ listing' = ListDir(NumFiles)
            /\ pc' = "scan"
            /\ crash_at' = crash_at
       ELSE IF rec
            THEN \* os.walk ignores the error of scandir (onerror=None)
                 /\ listing' = <<>>
                 /\ pc' = "scan"
                 /\ crash_at' = crash_at
            ELSE \* os.listdir raises
                 /\ listing' = listing
                 /\ pc' = "crashed"
                 /\ crash_at' = "os.listdir"
    /\ UNCHANGED <<fs, root_ok, mutations, tree_changed, altered, size_groups,
                   scan_failed, hashed, hash_groups, warnings, duplicates>>
    /\ UNCHANGED deleteVars
    /\ UNCHANGED mainVars
    /\ UNCHANGED scan_sizes

\* First pass: group files by size.
ScanFiles ==
    /\ pc = "scan"
    /\ size_groups' = ScanLoop(fs, recursive, listing, <<>>)
    /\ scan_sizes' = [f \in Paths |->
                        IF f \in SeqToSet(listing)
                           /\ (recursive \/ isfile(fs, f))
                        THEN get_file_size(fs, f) ELSE 0]
    /\ scan_failed' = {f \in SeqToSet(listing) :
                          recursive /\ StatError(fs, f) /= "none"}
    /\ pc' = "hash"
    /\ UNCHANGED <<fs, root_ok, mutations, tree_changed, altered, crash_at,
                   recursive, listing, hashed, hash_groups, warnings,
                   duplicates>>
    /\ UNCHANGED deleteVars
    /\ UNCHANGED mainVars

\* Second pass: hash files with matching sizes, filter, return.
HashFiles ==
    /\ pc = "hash"
    /\ IF potential_dupes(size_groups) = 0
       THEN /\ duplicates' = <<>>
            /\ pc' = "found"
            /\ UNCHANGED <<hashed, hash_groups, warnings, crash_at>>
       ELSE LET queue == HashQueue(size_groups)
                escaping == {i \in DOMAIN queue :
                                /\ OpenError(fs, queue[i]) /= "none"
                                /\ ~HashExcept(OpenError(fs, queue[i]))}
            IN IF escaping /= {}
               THEN LET stop == CHOOSE i \in escaping :
                                    \A j \in escaping : i <= j
                        done == SubSeq(queue, 1, stop - 1)
                    IN /\ hashed' = SubSeq(queue, 1, stop)
                       /\ hash_groups' = HashLoop(fs, done, <<>>)
                       /\ warnings' = HashWarnings(fs, done)
                       /\ pc' = "crashed"
                       /\ crash_at' = "get_file_hash"
                       /\ UNCHANGED duplicates
               ELSE /\ hashed' = queue
                    /\ hash_groups' = HashLoop(fs, queue, <<>>)
                    /\ warnings' = HashWarnings(fs, queue)
                    /\ duplicates' = FilterDuplicates(hash_groups')
                    /\ pc' = "found"
                    /\ UNCHANGED crash_at
    /\ UNCHANGED <<fs, root_ok, mutations, tree_changed, altered, recursive,
                   listing, size_groups, scan_failed>>
    /\ UNCHANGED deleteVars
    /\ UNCHANGED mainVars
    /\ UNCHANGED scan_sizes

(***************************************************************************)
(* delete_duplicates                                                       *)
(***************************************************************************)
RemoveAt(s, i) == SubSeq(s, 1, i - 1) \o SubSeq(s, i + 1, Len(s))

MaxMtime(fsys, files) ==
    CHOOSE t \in {getmtime(fsys, files[i]) : i \in DOMAIN files} :
        \A i \in DOMAIN files : getmtime(fsys, files[i]) <= t

RECURSIVE SortNewestFirst_Unstable(_, _)
SortNewestFirst_Unstable(fsys, files) ==
    IF files = <<>> THEN <<>>
    ELSE LET top == MaxMtime(fsys, files)
             i == CHOOSE i \in DOMAIN files :
                     /\ getmtime(fsys, files[i]) = top
                     /\ \A j \in DOMAIN files :
                           j > i => getmtime(fsys, files[j]) /= top
         IN <<files[i]>> \o SortNewestFirst_Unstable(fsys, RemoveAt(files, i))

\* files.sort(key=lambda f: os.path.getmtime(f), reverse=True): list.sort is
\* stable, also with reverse=True
RECURSIVE SortNewestFirst(_, _)
SortNewestFirst(fsys, files) ==
    IF files = <<>> THEN <<>>
    ELSE LET top == MaxMtime(fsys, files)
             i == CHOOSE i \in DOMAIN files :
                     /\ getmtime(fsys, files[i]) = top
                     /\ \A j \in DOMAIN files :
                           j < i => getmtime(fsys, files[j]) /= top
         IN <<files[i]>> \o SortNewestFirst(fsys, RemoveAt(files, i))

DeleteFiles_All(files) == files

\* delete_files = files[1:]
DeleteFiles(files) == Tail(files)

RemoveExcept_NotFoundOnly(err) == err = "FileNotFoundError"

\* except OSError as e
RemoveExcept(err) == err \in {"FileNotFoundError", "PermissionError"}

\* delete_duplicates is called; "if not duplicates: return".
DeleteBegin(newest) ==
    /\ pc = "delete"
    /\ keep_newest' = newest
    /\ deleted_count' = 0
    /\ freed_space' = 0
    /\ IF duplicates = <<>>
       THEN pc' = "deleted" /\ di' = di
       ELSE pc' = "sort" /\ di' = 1
    /\ UNCHANGED <<fs, root_ok, mutations, tree_changed, altered, crash_at,
                   ci, keep_file, delete_files, kept, attempts>>
    /\ UNCHANGED findVars
    /\ UNCHANGED mainVars
    /\ UNCHANGED scan_sizes

\* Top of the loop body for one set: apply the retention policy.
SortSet ==
    /\ pc = "sort"
    /\ LET files == duplicates[di].files
       IN IF keep_newest /\ \E i \in DOMAIN files :
                                 StatError(fs, files[i]) /= "none"
          THEN \* os.path.getmtime raises inside the sort key
               /\ pc' = "crashed"
               /\ crash_at' = "os.path.getmtime"
               /\ UNCHANGED <<duplicates, di, ci, keep_file, delete_files,
                              kept>>
          ELSE LET sorted == IF keep_newest
                             THEN SortNewestFirst(fs, files)
                             ELSE files
               IN /\ duplicates' = [duplicates EXCEPT ![di].files = sorted]
                  /\ keep_file' = sorted[1]
                  /\ delete_files' = DeleteFiles(sorted)
                  /\ kept' = Append(kept, sorted[1])
                  /\ ci' = 1
                  /\ IF delete_files' /= <<>>
                     THEN pc' = "remove" /\ di' = di
                     ELSE IF di < Len(duplicates)
                          THEN pc' = "sort" /\ di' = di + 1
                          ELSE pc' = "deleted" /\ di' = di
                  /\ UNCHANGED crash_at
    /\ UNCHANGED <<fs, root_ok, mutations, tree_changed, altered, recursive,
                   listing, size_groups, scan_failed, hashed, hash_groups,
                   warnings, keep_newest, attempts, deleted_count,
                   freed_space>>
    /\ UNCHANGED mainVars
    /\ UNCHANGED scan_sizes

\* One iteration of "for filepath in delete_files".
RemoveFile ==
    /\ pc = "remove"
    /\ LET filepath == delete_files[ci]
           file_size == get_file_size(fs, filepath)
           err == RemoveError(fs, filepath)
           escapes == err /= "none" /\ ~RemoveExcept(err)
       IN /\ IF err = "none"
             THEN /\ fs' = Unlink(fs, filepath)
                  /\ deleted_count' = deleted_count + 1
                  /\ freed_space' = freed_space + file_size
                  /\ attempts' = Append(attempts,
                                   [path |-> filepath, result |-> "deleted"])
             ELSE /\ UNCHANGED <<fs, deleted_count, freed_space>>
                  /\ attempts' = IF escapes THEN attempts
                                 ELSE Append(attempts,
                                        [path |-> filepath, result |-> err])
          /\ IF escapes
             THEN pc' = "crashed" /\ crash_at' = "os.remove"
                  /\ UNCHANGED <<di, ci>>
             ELSE /\ UNCHANGED crash_at
                  /\ IF ci < Len(delete_files)
                     THEN pc' = pc /\ ci' = ci + 1 /\ di' = di
                     ELSE IF di < Len(duplicates)
                          THEN pc' = "sort" /\ di' = di + 1 /\ ci' = ci
                          ELSE pc' = "deleted" /\ di' = di /\ ci' = ci
    /\ UNCHANGED <<root_ok, mutations, tree_changed, altered, keep_newest,
                   keep_file, delete_files, kept>>
    /\ UNCHANGED findVars
    /\ UNCHANGED mainVars
    /\ UNCHANGED scan_sizes

\* the orders in which os.walk / os.listdir may return the entries
ListingOrders ==
    {p \in [1..NumFiles -> Paths] :
        \A i \in 1..NumFiles, j \in 1..NumFiles : i /= j => p[i] /= p[j]}

\* find_duplicates is called a second time on the same folder; the
\* directory entries come in an arbitrary order.
FindAgain(order) ==
    /\ pc = "found"
    /\ runs = 1
    /\ runs' = 2
    /\ first_result' = duplicates
    /\ listing' = IF root_ok THEN order ELSE <<>>
    /\ size_groups' = <<>>
    /\ scan_sizes' = [f \in Paths |-> 0]
    /\ scan_failed' = {}
    /\ hashed' = <<>>
    /\ hash_groups' = <<>>
    /\ warnings' = {}
    /\ duplicates' = <<>>
    /\ pc' = "scan"
    /\ UNCHANGED <<fs, root_ok, mutations, tree_changed, altered, crash_at,
                   recursive, report, total_wasted_space, duplicate_count,
                   args_delete, response, prompts>>
    /\ UNCHANGED deleteVars

(***************************************************************************)
(* display_duplicates and main                                             *)
(***************************************************************************)
WastedSpace_AllCopies(file_size, copies) == file_size * copies

\* wasted_space = file_size * (len(files) - 1)
WastedSpace(file_size, copies) == file_size * (copies - 1)

AddCount_AllCopies(count, copies) == count + copies

\* duplicate_count += len(files) - 1
AddCount(count, copies) == count + (copies - 1)

\* what one iteration of the loop of display_duplicates prints
ReportLine(fsys, g) ==
    LET file_size == get_file_size(fsys, g.files[1])
    IN [file_size |-> file_size,
        wasted_space |-> WastedSpace(file_size, Len(g.files)),
        copies |-> Len(g.files),
        hash |-> g.key,
        files |-> g.files]

\* for i, (file_hash, files) in enumerate(duplicates.items(), 1)
RECURSIVE DisplayLoop(_, _, _)
DisplayLoop(fsys, dups, acc) ==
    IF dups = <<>> THEN acc
    ELSE LET line == ReportLine(fsys, Head(dups))
         IN DisplayLoop(fsys, Tail(dups),
                [lines |-> Append(acc.lines, line),
                 total |-> acc.total + line.wasted_space,
                 count |-> AddCount(acc.count, line.copies)])

\* main calls display_duplicates(duplicates).
Display ==
    /\ pc = "found"
    /\ LET res == DisplayLoop(fs, duplicates,
                      [lines |-> <<>>, total |-> 0, count |-> 0])
       IN /\ report' = res.lines
          /\ total_wasted_space' = res.total
          /\ duplicate_count' = res.count
    /\ pc' = "reported"
    /\ UNCHANGED <<fs, root_ok, mutations, tree_changed, altered, crash_at,
                   args_delete, response, prompts, runs, first_result,
                   scan_sizes>>
    /\ UNCHANGED findVars
    /\ UNCHANGED deleteVars

Responses == {"yes", "YES", "Yes", "y", "no", ""}

\* response.lower()
Lower(resp) == IF resp \in {"YES", "Yes"} THEN "yes" ELSE resp

Confirmed_NotNo(resp) == Lower(resp) /= "no"

\* if response.lower() == 'yes':
Confirmed(resp) == Lower(resp) = "yes"

\* main, after the report: "if args.delete and duplicates:", the prompt and
\* the test of the answer.
MainDecide(delete, resp) ==
    /\ pc = "reported"
    /\ args_delete' = delete
    /\ IF delete /\ duplicates /= <<>>
       THEN /\ response' = resp
            /\ prompts' = prompts + 1
            /\ pc' = IF Confirmed(resp) THEN "delete" ELSE "cancelled"
       ELSE /\ pc' = "done"
            /\ UNCHANGED <<response, prompts>>
    /\ UNCHANGED <<fs, root_ok, mutations, tree_changed, altered, crash_at,
                   report, total_wasted_space, duplicate_count, runs,
                   first_result, scan_sizes>>
    /\ UNCHANGED findVars
    /\ UNCHANGED deleteVars

(***************************************************************************)
(* The environment: another process changes the folder while the program   *)
(* is between two of its steps.                                            *)
(***************************************************************************)
Running == pc \in {"scan", "hash", "delete", "sort", "remove"}

ExtRemove(f) ==
    /\ Running
    /\ mutations < MaxMutations
    /\ fs[f].status /= "missing"
    /\ fs' = [fs EXCEPT ![f].status = "missing"]
    /\ mutations' = mutations + 1
    /\ tree_changed' = TRUE
    /\ UNCHANGED <<root_ok, altered, pc, crash_at>>
    /\ UNCHANGED findVars
    /\ UNCHANGED deleteVars
    /\ UNCHANGED mainVars
    /\ UNCHANGED scan_sizes

ExtRevokeRead(f) ==
    /\ Running
    /\ mutations < MaxMutations
    /\ fs[f].status = "ok"
    /\ fs' = [fs EXCEPT ![f].status = "unreadable"]
    /\ mutations' = mutations + 1
    /\ UNCHANGED <<root_ok, tree_changed, altered, pc, crash_at>>
    /\ UNCHANGED findVars
    /\ UNCHANGED deleteVars
    /\ UNCHANGED mainVars
    /\ UNCHANGED scan_sizes

ExtProtect(f) ==
    /\ Running
    /\ mutations < MaxMutations
    /\ fs[f].status = "ok"
    /\ fs' = [fs EXCEPT ![f].status = "protected"]
    /\ mutations' = mutations + 1
    /\ UNCHANGED <<root_ok, tree_changed, altered, pc, crash_at>>
    /\ UNCHANGED findVars
    /\ UNCHANGED deleteVars
    /\ UNCHANGED mainVars
    /\ UNCHANGED scan_sizes

ExtAlter(f, c) ==
    /\ Running
    /\ mutations < MaxMutations
    /\ fs[f].status /= "missing"
    /\ c /= fs[f].content
    /\ fs' = [fs EXCEPT ![f].content = c, ![f].mtime = MaxTime]
    /\ mutations' = mutations + 1
    /\ tree_changed' = TRUE
    /\ altered' = IF pc = "hash" THEN altered \cup {f} ELSE altered
    /\ UNCHANGED <<root_ok, pc, crash_at>>
    /\ UNCHANGED findVars
    /\ UNCHANGED deleteVars
    /\ UNCHANGED mainVars
    /\ UNCHANGED scan_sizes

\* Another process removes a file after find_duplicates has returned and
\* before the report is made.
ExtRemoveReported(f) ==
    /\ pc = "found"
    /\ mutations < MaxMutations
    /\ Grouped(duplicates, f)
    /\ fs' = [fs EXCEPT ![f].status = "missing"]
    /\ mutations' = mutations + 1
    /\ tree_changed' = TRUE
    /\ UNCHANGED <<root_ok, altered, pc, crash_at, scan_sizes>>
    /\ UNCHANGED findVars
    /\ UNCHANGED deleteVars
    /\ UNCHANGED mainVars

(***************************************************************************)
(* Specifications                                                          *)
(***************************************************************************)
InitProgram ==
    /\ mutations = 0
    /\ tree_changed = FALSE
    /\ altered = {}
    /\ crash_at = "none"
    /\ recursive = TRUE
    /\ keep_newest = TRUE
    /\ di = 0
    /\ ci = 0
    /\ keep_file = 0
    /\ delete_files = <<>>
    /\ kept = <<>>
    /\ attempts = <<>>
    /\ deleted_count = 0
    /\ freed_space = 0
    /\ report = <<>>
    /\ total_wasted_space = 0
    /\ duplicate_count = 0
    /\ args_delete = FALSE
    /\ response = ""
    /\ prompts = 0
    /\ runs = 1
    /\ first_result = <<>>

\* find_duplicates on any folder; modification times are not read by it.
Init ==
    /\ InitProgram
    /\ \E cont \in [Paths -> Contents] :
          fs = [f \in Paths |->
                  [content |-> cont[f], mtime |-> 1, status |-> "ok"]]
    /\ root_ok \in BOOLEAN
    /\ pc = "start"
    /\ listing = <<>>
    /\ size_groups = <<>>
    /\ scan_sizes = [f \in Paths |-> 0]
    /\ scan_failed = {}
    /\ hashed = <<>>
    /\ hash_groups = <<>>
    /\ warnings = {}
    /\ duplicates = <<>>

Next ==
    \/ \E rec \in BOOLEAN : FindBegin(rec)
    \/ ScanFiles
    \/ HashFiles
    \/ \E f \in Paths : ExtRemove(f)
    \/ \E f \in Paths : ExtRevokeRead(f)
    \/ \E f \in Paths, c \in Contents : ExtAlter(f, c)

Spec == Init /\ [][Next]_vars

\* delete_duplicates on what find_duplicates returned for a folder that
\* nobody touched during the detection.
InitDelete ==
    /\ InitProgram
    /\ \E cont \in [Paths -> Contents], mt \in [Paths -> Times] :
          fs = [f \in Paths |->
                  [content |-> cont[f], mtime |-> mt[f], status |-> "ok"]]
    /\ root_ok = TRUE
    /\ pc = "delete"
    /\ listing = ListDir(NumFiles)
    /\ size_groups = ScanLoop(fs, TRUE, listing, <<>>)
    /\ scan_sizes = [f \in Paths |-> get_file_size(fs, f)]
    /\ scan_failed = {}
    /\ hashed = HashQueue(size_groups)
    /\ hash_groups = HashLoop(fs, hashed, <<>>)
    /\ warnings = {}
    /\ duplicates = FilterDuplicates(hash_groups)

NextDelete ==
    \/ \E newest \in BOOLEAN : DeleteBegin(newest)
    \/ SortSet
    \/ RemoveFile
    \/ \E f \in Paths : ExtRemove(f)
    \/ \E f \in Paths : ExtProtect(f)

SpecDelete == InitDelete /\ [][NextDelete]_vars

\* main on any folder: detection, report, confirmation, deletion.
InitMain ==
    /\ InitProgram
    /\ \E cont \in [Paths -> Contents], mt \in [Paths -> Times] :
          fs = [f \in Paths |->
                  [content |-> cont[f], mtime |-> mt[f], status |-> "ok"]]
    /\ root_ok \in BOOLEAN
    /\ pc = "start"
    /\ listing = <<>>
    /\ size_groups = <<>>
    /\ scan_sizes = [f \in Paths |-> 0]
    /\ scan_failed = {}
    /\ hashed = <<>>
    /\ hash_groups = <<>>
    /\ warnings = {}
    /\ duplicates = <<>>

NextMain ==
    \/ \E rec \in BOOLEAN : FindBegin(rec)
    \/ ScanFiles
    \/ HashFiles
    \/ Display
    \/ \E delete \in BOOLEAN, resp \in Responses : MainDecide(delete, resp)
    \/ \E newest \in BOOLEAN : DeleteBegin(newest)
    \/ SortSet
    \/ RemoveFile
    \/ \E f \in Paths : ExtRemoveReported(f)

SpecMain == InitMain /\ [][NextMain]_vars

\* find_duplicates twice on a folder nobody changes.
NextTwice ==
    \/ \E rec \in BOOLEAN : FindBegin(rec)
    \/ ScanFiles
    \/ HashFiles
    \/ \E order \in ListingOrders : FindAgain(order)

SpecTwice == Init /\ [][NextTwice]_vars

(***************************************************************************)
(* Properties                                                              *)
(***************************************************************************)
Members(k) == SeqToSet(duplicates[k].files)

\* files on which os.remove succeeded
Removed ==
    {attempts[i].path : i \in {j \in DOMAIN attempts :
                                  attempts[j].result = "deleted"}}

\* files for which "Error reading" was printed
Warned == {w[1] : w \in warnings}

SameBucket(a, b) ==
    \E i \in DOMAIN size_groups :
        InGroup(size_groups, i, a) /\ InGroup(size_groups, i, b)

\* C1: every file delete_duplicates removes is a non-retained member
\* (files[1:] after the retention policy) of one of the sets it was given;
\* the file printed as "Keeping" is files[0] and is never removed, and no
\* file outside the sets is removed.
C1_OnlyCandidatesRemoved ==
    /\ \A f \in Removed :
          \E k \in 1..Len(kept) :
              \E j \in 2..Len(duplicates[k].files) :
                  duplicates[k].files[j] = f
    /\ \A k \in 1..Len(kept) :
          /\ kept[k] = duplicates[k].files[1]
          /\ kept[k] \notin Removed
          /\ RemoveError(fs, kept[k]) = "none" \/ mutations > 0
    /\ Removed \subseteq UNION {Members(k) : k \in DOMAIN duplicates}

C1_Witness ==
    /\ pc = "deleted"
    /\ Len(duplicates) = 2
    /\ Cardinality(Removed) = 2
    /\ mutations = 0

\* C2: when delete_duplicates has returned, every os.remove succeeded and
\* nobody else removed or rewrote a file, exactly one member of every set
\* find_duplicates reported still exists, and it is the retained one.
C2_OneSurvivorPerSet ==
    (/\ pc = "deleted"
     /\ ~tree_changed
     /\ \A i \in DOMAIN attempts : attempts[i].result = "deleted")
    => \A k \in DOMAIN FilterDuplicates(hash_groups) :
          LET orig == SeqToSet(FilterDuplicates(hash_groups)[k].files)
          IN /\ Cardinality({f \in orig : isfile(fs, f)}) = 1
             /\ k <= Len(kept)
             /\ kept[k] \in orig
             /\ isfile(fs, kept[k])

C2_Witness ==
    /\ pc = "deleted"
    /\ ~tree_changed
    /\ \A i \in DOMAIN attempts : attempts[i].result = "deleted"
    /\ Len(duplicates) = 2
    /\ Len(attempts) = 2

\* C3: when find_duplicates has returned, two scanned files of the same size
\* bucket that both hash successfully are in one duplicate set if their
\* contents are identical, and share no digest group if they differ.
C3_GroupedByContent ==
    pc = "found" =>
        \A a \in Paths, b \in Paths :
            (/\ a /= b
             /\ SameBucket(a, b)
             /\ OpenError(fs, a) = "none"
             /\ OpenError(fs, b) = "none")
            => /\ fs[a].content = fs[b].content =>
                    \E k \in DOMAIN duplicates :
                        InGroup(duplicates, k, a) /\ InGroup(duplicates, k, b)
               /\ fs[a].content /= fs[b].content =>
                    ~\E k \in DOMAIN hash_groups :
                        InGroup(hash_groups, k, a) /\ InGroup(hash_groups, k, b)

\* A and B with content X, C with content Y, all of one size: one set {A, B}.
C3_Witness ==
    /\ pc = "found"
    /\ mutations = 0
    /\ Len(duplicates) = 1
    /\ \E a \in Paths, b \in Paths, c \in Paths :
          /\ a /= b
          /\ SameBucket(a, b) /\ SameBucket(a, c)
          /\ fs[a].content = fs[b].content
          /\ fs[a].content /= fs[c].content
          /\ Members(1) = {a, b}
          /\ ~Grouped(duplicates, c)

\* C4: with keep_newest=False the retained file of every set is the member
\* with the smallest modification time.
C4_KeepOldestRetainsOldest ==
    ~keep_newest =>
        \A k \in 1..Len(kept) :
            \A f \in Members(k) : getmtime(fs, kept[k]) <= getmtime(fs, f)

\* C5: with keep_newest=True the retained file of every set is the member
\* with the greatest modification time, the first discovered of those that
\* tie for it, and every other member is a deletion candidate.
C5_KeepNewestFirstSeen ==
    keep_newest =>
        /\ \A k \in 1..Len(kept) :
              /\ kept[k] \in Members(k)
              /\ \A f \in Members(k) :
                    /\ getmtime(fs, f) <= getmtime(fs, kept[k])
                    /\ getmtime(fs, f) = getmtime(fs, kept[k]) => kept[k] <= f
        /\ pc = "remove" =>
              /\ keep_file = kept[di]
              /\ SeqToSet(delete_files) = Members(di) \ {keep_file}
              /\ Len(delete_files) = Len(duplicates[di].files) - 1

C5_Witness ==
    /\ keep_newest
    /\ pc = "remove"
    /\ \E f \in Members(di), g \in Members(di) :
          /\ f > keep_file
          /\ getmtime(fs, f) = getmtime(fs, keep_file)
          /\ g < keep_file
          /\ getmtime(fs, g) < getmtime(fs, keep_file)

\* C6: a failed os.remove never escapes delete_duplicates: it is reported
\* with the path and the error, the loop goes on, and when delete_duplicates
\* returns every candidate of every set has been attempted.
C6_FailureIsolated ==
    /\ crash_at /= "os.remove"
    /\ \A i \in DOMAIN attempts :
          attempts[i].result \in {"deleted", "FileNotFoundError", "PermissionError"}
    /\ \A k \in 1..Len(kept) :
          (k < di \/ pc = "deleted") =>
              \A j \in 2..Len(duplicates[k].files) :
                  \E i \in DOMAIN attempts :
                      attempts[i].path = duplicates[k].files[j]
    /\ pc = "remove" =>
          /\ Len(kept) = di
          /\ \A j \in 1..(ci - 1) :
                \E i \in DOMAIN attempts : attempts[i].path = delete_files[j]
    /\ pc = "deleted" => Len(kept) = Len(duplicates)

C6_Witness ==
    /\ pc = "deleted"
    /\ \E i \in DOMAIN attempts, j \in DOMAIN attempts :
          /\ i < j
          /\ attempts[i].result = "PermissionError"
          /\ attempts[j].result = "deleted"

\* C7: no filesystem error aborts find_duplicates or delete_duplicates.
C7_NeverAborts == pc /= "crashed"

\* files whose hashing failed (the folder is not changed after the hashing)
HashFailed == {f \in SeqToSet(hashed) : OpenError(fs, f) /= "none"}

\* C8: a file whose hashing fails is in no digest group and no duplicate
\* set, a warning names it, no exception escapes get_file_hash, and every
\* other file of the multi-member size buckets is hashed and grouped by its
\* content.
C8_HashFailureExcluded ==
    /\ crash_at /= "get_file_hash"
    /\ pc = "found" =>
          /\ \A f \in HashFailed :
                /\ ~Grouped(hash_groups, f)
                /\ ~Grouped(duplicates, f)
                /\ f \in Warned
          /\ Warned \subseteq HashFailed
          /\ \A f \in Paths :
                (\E g \in Paths : g /= f /\ SameBucket(f, g)) =>
                    \E i \in DOMAIN hashed : hashed[i] = f
          /\ \A a \in SeqToSet(hashed) \ HashFailed :
                /\ Grouped(hash_groups, a)
                /\ \A b \in SeqToSet(hashed) \ HashFailed :
                      (fs[a].content = fs[b].content) <=>
                          \E k \in DOMAIN hash_groups :
                              /\ InGroup(hash_groups, k, a)
                              /\ InGroup(hash_groups, k, b)

\* hashing fails on B: the set holds the other copies and excludes B
C8_Witness ==
    /\ pc = "found"
    /\ \E b \in HashFailed :
          /\ fs[b].status = "missing"
          /\ \E k \in DOMAIN duplicates :
                /\ \A f \in Members(k) : fs[f].content = fs[b].content
                /\ b \notin Members(k)

\* C9: every file the scan skips because it cannot be read has a warning
\* that names it.
C9_ScanSkipsAreWarned == scan_failed \subseteq Warned

C11_ConfirmedBeforeDelete ==
    /\ (attempts /= <<>> \/ pc \in {"delete", "sort", "remove", "deleted"}) =>
          /\ args_delete
          /\ duplicates /= <<>>
          /\ Lower(response) = "yes"
          /\ prompts = 1
          /\ Len(report) = Len(duplicates)
    /\ pc \in {"start", "scan", "hash", "found", "reported", "cancelled", "done"} =>
          /\ attempts = <<>>
          /\ \A f \in Paths : isfile(fs, f) \/ mutations > 0
    /\ pc = "cancelled" => prompts = 1 /\ Lower(response) /= "yes"
    /\ pc = "done" => prompts = 0
    /\ prompts <= 1

C11_Witness ==
    /\ pc = "deleted"
    /\ response = "YES"
    /\ Len(attempts) = 2
    /\ Removed /= {}

\* C12: a file that is zero bytes long when the scan reads its size is in no
\* duplicate set find_duplicates returns, in recursive and non-recursive
\* mode, however many such files there are.
C12_NoZeroByteMembers ==
    /\ \A f \in Paths :
          (pc \notin {"start", "scan"} /\ scan_sizes[f] = 0) =>
              /\ ~Grouped(size_groups, f)
              /\ ~Grouped(hash_groups, f)
              /\ ~Grouped(duplicates, f)
    /\ (pc \notin {"start", "scan"} /\ ~tree_changed) =>
          \A f \in Paths :
              Len(fs[f].content) = 0 =>
                  scan_sizes[f] = 0 /\ ~Grouped(duplicates, f)

C12_Witness ==
    /\ pc = "found"
    /\ ~recursive
    /\ duplicates /= <<>>
    /\ mutations = 0
    /\ Cardinality({f \in Paths : Len(fs[f].content) = 0}) = 2

\* C13: once find_duplicates has returned, no later operation changes the
\* membership or the member order of a duplicate set.
C13_SetsImmutable ==
    pc \notin {"start", "scan", "hash"} =>
        duplicates = FilterDuplicates(hash_groups)

C15_WastedSpacePerSet ==
    ~tree_changed =>
        \A k \in DOMAIN report :
            \A f \in SeqToSet(report[k].files) :
                /\ scan_sizes[f] = report[k].file_size
                /\ report[k].wasted_space =
                      scan_sizes[f] * (Len(report[k].files) - 1)

C15_Witness ==
    /\ ~tree_changed
    /\ \E k \in DOMAIN report :
          /\ Len(report[k].files) = 3
          /\ report[k].file_size = 2
          /\ report[k].wasted_space = 4

RECURSIVE SumSeq(_)
SumSeq(q) == IF q = <<>> THEN 0 ELSE Head(q) + SumSeq(Tail(q))

\* C16: the duplicate-file count display_duplicates reports is the sum over
\* the sets of (number of members - 1), and the wasted space it returns is
\* the sum of the per-set wasted space.
C16_ReportTotals ==
    pc \notin {"start", "scan", "hash", "found"} =>
        /\ Len(report) = Len(FilterDuplicates(hash_groups))
        /\ duplicate_count =
              SumSeq([k \in DOMAIN report |->
                        Len(FilterDuplicates(hash_groups)[k].files) - 1])
        /\ total_wasted_space =
              SumSeq([k \in DOMAIN report |-> report[k].wasted_space])

C16_Witness ==
    /\ pc = "reported"
    /\ Len(report) = 2
    /\ duplicate_count = 2
    /\ total_wasted_space = 3

\* a result as a collection of member sets per digest
AsSets(d) == {<<d[k].key, SeqToSet(d[k].files)>> : k \in DOMAIN d}

\* C17: find_duplicates run twice on an unchanged tree returns the same
\* collection of duplicate sets, compared as sets of member paths per digest,
\* whatever the order in which entries and sets come.
C17_SameSetsTwice ==
    (runs = 2 /\ pc = "found") =>
        /\ AsSets(duplicates) = AsSets(first_result)
        /\ Len(duplicates) = Len(first_result)

C17_Witness ==
    /\ runs = 2
    /\ pc = "found"
    /\ Len(duplicates) = 2
    /\ duplicates[1].key = first_result[2].key
    /\ duplicates[1].files /= first_result[2].files

\* the deletion candidates fixed so far: files[1:] of every set the retention
\* policy has been applied to
Candidates ==
    {f \in Paths :
        \E k \in 1..Len(kept) :
            \E j \in 2..Len(duplicates[k].files) : duplicates[k].files[j] = f}

CandState(f) ==
    IF \E i \in DOMAIN attempts :
          attempts[i].path = f /\ attempts[i].result = "deleted"
    THEN "Committed"
    ELSE IF \E i \in DOMAIN attempts : attempts[i].path = f
    THEN "Failed"
    ELSE IF pc = "remove" /\ delete_files[ci] = f
    THEN "Executing"
    ELSE IF f \in Candidates
    THEN "Planned"
    ELSE "None"

CandStep(a, b) ==
    \/ a = b
    \/ <<a, b>> \in {<<"None", "Planned">>, <<"None", "Executing">>,
                     <<"Planned", "Executing">>, <<"Executing", "Committed">>,
                     <<"Executing", "Failed">>}

C18_StateInv ==
    /\ \A i \in DOMAIN attempts, j \in DOMAIN attempts :
          i /= j => attempts[i].path /= attempts[j].path
    /\ \A i \in DOMAIN attempts : attempts[i].path \in Candidates
    /\ deleted_count = Cardinality(Removed)
    /\ freed_space =
          SumSeq([i \in DOMAIN attempts |->
                    IF attempts[i].result = "deleted"
                    THEN Len(fs[attempts[i].path].content) ELSE 0])
    /\ \A f \in Removed : ~isfile(fs, f)
    /\ pc \in {"deleted", "crashed"} =>
          \A f \in Paths : CandState(f) \in {"None", "Committed", "Failed"}
    /\ pc = "deleted" => Len(kept) = Len(duplicates)

C18_StateStep ==
    \A f \in Paths :
        /\ CandStep(CandState(f), CandState(f)')
        /\ (CandState(f) = "Executing" /\ CandState(f)' = "Failed") =>
              /\ fs' = fs
              /\ deleted_count' = deleted_count
              /\ freed_space' = freed_space
        /\ (CandState(f) = "Executing" /\ CandState(f)' = "Committed") =>
              /\ isfile(fs, f)
              /\ ~isfile(fs', f)
              /\ deleted_count' = deleted_count + 1
              /\ freed_space' = freed_space + Len(fs[f].content)

\* once delete_duplicates is over, by return or by an uncaught exception, all
\* members but one of every set have reached Committed or Failed
C18_AllResolved ==
    pc \in {"deleted", "crashed"} =>
        \A k \in DOMAIN duplicates :
            Cardinality({f \in Members(k) :
                            CandState(f) \in {"Committed", "Failed"}})
                = Len(duplicates[k].files) - 1

\* C18: every candidate of every set goes Planned -> Executing -> Committed
\* (file removed, counted in deleted_count, its size added to freed_space) or
\* Failed (file left as it was, not counted); it is attempted at most once, a
\* terminal state is never left, and when delete_duplicates ends no candidate
\* is Planned or Executing.
C18_CandidateStateMachine ==
    [](C18_StateInv /\ C18_AllResolved) /\ [][C18_StateStep]_vars

\* C19: only files of size buckets with at least 2 members are passed to
\* get_file_hash; a file whose scanned size is unique is never hashed and is
\* in no digest group; with no such bucket find_duplicates returns an empty
\* result without hashing; every set returned has at least 2 members.
C19_OnlyCollidingHashed ==
    /\ \A f \in SeqToSet(hashed) :
          \E g \in Paths : g /= f /\ SameBucket(f, g)
    /\ \A f \in Paths :
          (~\E g \in Paths : g /= f /\ SameBucket(f, g)) =>
              ~Grouped(hash_groups, f) /\ ~Grouped(duplicates, f)
    /\ (pc = "found" /\ potential_dupes(size_groups) = 0) =>
          hashed = <<>> /\ hash_groups = <<>> /\ duplicates = <<>>
    /\ \A k \in DOMAIN duplicates : Len(duplicates[k].files) >= 2
    /\ \A i \in DOMAIN size_groups :
          \A f \in SeqToSet(size_groups[i].files) :
              scan_sizes[f] = size_groups[i].key

C19_Witness ==
    /\ pc = "found"
    /\ duplicates /= <<>>
    /\ \E i \in DOMAIN size_groups :
          /\ Len(size_groups[i].files) = 1
          /\ size_groups[i].files[1] \notin SeqToSet(hashed)

====
